---------------------------- MODULE Spec2Model ----------------------------
(***************************************************************************)
(* A model of tools/pdf2image.py: the URL resolution and download step of  *)
(* download_dify_file_content, the page loop of                            *)
(* convert_pdf_to_image_blobs, and the generator Pdf2imageTool._invoke,    *)
(* one action per resumption of the generator (from one yield to the next) *)
(* and per call it makes.                                                  *)
(*                                                                         *)
(* Python strings that the code inspects (URLs) are sequences of one       *)
(* character strings; MIME types, file names and message templates, which  *)
(* the code only compares or interpolates, are TLA+ strings.               *)
(***************************************************************************)
EXTENDS Integers, Sequences, FiniteSets, TLC

VARIABLES
    files,          \* tool_parameters['pdf_files']: sequence of file objects
    host_url,       \* tool_parameters['host_url']
    pc,             \* where the generator _invoke is suspended / running
    events,         \* the messages yielded so far, in emission order
    idx,            \* position of dify_file_obj in the running for loop (1-based)
    exc,            \* the exception propagating in _invoke (NoExc when none)
    requested,      \* full_url of every requests.get made, in order
    pdf_document,   \* convert_pdf_to_image_blobs: the handle (0 is None)
    doc_len,        \* len(pdf_document) of the current handle
    page_number,    \* convert_pdf_to_image_blobs: loop variable
    conv_blobs,     \* convert_pdf_to_image_blobs: the local list image_blobs
    conv_exc,       \* exception propagating out of convert_pdf_to_image_blobs
    open_result,    \* what fitz.open did in the current conversion call
    image_blobs,    \* _invoke: the list returned by the conversion
    i,              \* _invoke: enumerate index of the blob emission loop
    open_handles,   \* documents opened by fitz.open and not yet closed
    rendered,       \* history: every page load attempted, in order
    calls           \* history: the outcome of every conversion call

vars == <<files, host_url, pc, events, idx, exc, requested, pdf_document,
          doc_len, page_number, conv_blobs, conv_exc, open_result,
          image_blobs, i, open_handles, rendered, calls>>

---------------------------------------------------------------------------
(* Bounds of the model *)

MaxFiles == 3
MaxPages == 2
MaxSlashes == 2

---------------------------------------------------------------------------
(* Strings as character sequences *)

SLASH == "/"

HTTP == <<"h", "t", "t", "p", ":", "/", "/">>

HTTPS == <<"h", "t", "t", "p", "s", ":", "/", "/">>

RECURSIVE Slashes(_)
Slashes(n) == IF n = 0 THEN <<>> ELSE <<SLASH>> \o Slashes(n - 1)

\* str.startswith(prefix)
startswith(s, prefix) ==
    /\ Len(s) >= Len(prefix)
    /\ SubSeq(s, 1, Len(prefix)) = prefix

\* str.rstrip('/'): every trailing '/' is removed
RECURSIVE rstrip(_)
rstrip(s) ==
    IF Len(s) > 0 /\ s[Len(s)] = SLASH
    THEN rstrip(SubSeq(s, 1, Len(s) - 1))
    ELSE s

\* full_url with the host used as given, its trailing slashes kept
full_url_unstripped(relative_url, dify_host_url) ==
    IF ~(startswith(relative_url, HTTP) \/ startswith(relative_url, HTTPS))
    THEN IF startswith(relative_url, <<SLASH>>)
         THEN dify_host_url \o relative_url
         ELSE dify_host_url \o <<SLASH>> \o relative_url
    ELSE relative_url

\* lines 26-33 of download_dify_file_content
full_url(relative_url, dify_host_url) ==
    LET cleaned_host_url == rstrip(dify_host_url)
    IN  IF ~(startswith(relative_url, HTTP) \/ startswith(relative_url, HTTPS))
        THEN IF startswith(relative_url, <<SLASH>>)
             THEN cleaned_host_url \o relative_url
             ELSE cleaned_host_url \o <<SLASH>> \o relative_url
        ELSE relative_url

---------------------------------------------------------------------------
(* Values *)

PDF == "application/pdf"

MimeTypes == {PDF, "image/png"}

FileNames == {"a.pdf", "b.pdf"}

NoExc == [type |-> "None", origin |-> "none", page |-> 0]

\* line 107
MimeError == [type |-> "ValueError", origin |-> "mime", page |-> 0]

\* line 117
DownloadError == [type |-> "IOError", origin |-> "download", page |-> 0]

\* line 85: "打开或解析PDF文件时出错"
OpenError == [type |-> "ValueError", origin |-> "open", page |-> 0]

\* an exception of fitz.open that is not a FitzError, with its own message
LibraryError == [type |-> "RuntimeError", origin |-> "library", page |-> 0]

\* PageError with the internal, 0-based page index in the message
PageErrorZeroBased(p) == [type |-> "ValueError", origin |-> "page", page |-> p]

\* lines 79-81: "处理PDF第 {page_number + 1} 页时失败"
PageError(p) == [type |-> "ValueError", origin |-> "page", page |-> p + 1]

NoName == [stem |-> "", page |-> 0]

\* pix.tobytes() of page p (0-based) of the document downloaded for file k
Rendering(k, p) == <<k, p>>

NoBlob == <<>>

\* create_text_message
TextMessage(msg, k, n) ==
    [kind |-> "text", msg |-> msg, file |-> k, n |-> n,
     file_name |-> NoName, blob |-> NoBlob, cause |-> NoExc]

\* create_json_message({"result": ...})
JsonMessage(msg, k, e) ==
    [kind |-> "json", msg |-> msg, file |-> k, n |-> 0,
     file_name |-> NoName, blob |-> NoBlob, cause |-> e]

\* BlobName numbered with the enumerate index itself
BlobNameZeroBased(filename, j) == [stem |-> filename, page |-> j]

\* f"{dify_file_obj.filename}_page{i+1}.png", line 130
BlobName(filename, j) == [stem |-> filename, page |-> j + 1]

\* create_blob_message, lines 127-133
BlobMessage(b, k, j) ==
    [kind |-> "blob", msg |-> "image/png", file |-> k, n |-> 0,
     file_name |-> BlobName(files[k].filename, j), blob |-> b, cause |-> NoExc]

\* bool(pdf_document), line 88: None is false, and an object that defines
\* __len__ (line 69 calls it) and no __bool__ is false when its length is 0
Truthy(doc, length) == doc # 0 /\ length # 0

---------------------------------------------------------------------------
(* Inputs *)

RelativeBodies == { <<"a">>, HTTP \o <<"x">>, HTTPS \o <<"x">> }

\* reference URLs: 0..MaxSlashes leading slashes before a path or a full URL
AllUrls == { Slashes(n) \o b : n \in 0..MaxSlashes, b \in RelativeBodies }

\* base URLs: 0..MaxSlashes trailing slashes
AllHosts == { <<"h">> \o Slashes(n) : n \in 0..MaxSlashes }

FewUrls == { <<"a">>, HTTP \o <<"x">> }

FewHosts == { <<"h", SLASH>> }

FileObjects(urls) == [filename : FileNames, mime_type : MimeTypes, url : urls]

RECURSIVE SeqsOf(_, _)
SeqsOf(S, n) ==
    IF n = 0 THEN { <<>> }
    ELSE { Append(s, x) : s \in SeqsOf(S, n - 1), x \in S }

InitWith(lengths, urls, hosts) ==
    /\ \E n \in lengths : files \in SeqsOf(FileObjects(urls), n)
    /\ host_url \in hosts
    /\ pc = "start"
    /\ events = <<>>
    /\ idx = 0
    /\ exc = NoExc
    /\ requested = <<>>
    /\ pdf_document = 0
    /\ doc_len = 0
    /\ page_number = 0
    /\ conv_blobs = <<>>
    /\ conv_exc = NoExc
    /\ open_result = "none"
    /\ image_blobs = <<>>
    /\ i = 0
    /\ open_handles = {}
    /\ rendered = <<>>
    /\ calls = <<>>

Init == InitWith(0..MaxFiles, FewUrls, FewHosts)

InitUrl == InitWith({1}, AllUrls, AllHosts)

---------------------------------------------------------------------------
(* Pdf2imageTool._invoke *)

frame == <<pdf_document, doc_len, page_number, conv_blobs, conv_exc, open_result>>

history == <<open_handles, rendered, calls>>

\* line 101
Start ==
    /\ pc = "start"
    /\ events' = Append(events, TextMessage("validating", 0, 0))
    /\ idx' = 1
    /\ pc' = "validate"
    /\ UNCHANGED <<files, host_url, exc, requested, image_blobs, i, frame, history>>

\* ValidateNext without the MIME comparison
ValidateNextAnyType ==
    /\ pc = "validate"
    /\ idx <= Len(files)
    /\ idx' = idx + 1
    /\ UNCHANGED <<files, host_url, pc, events, exc, requested, image_blobs, i,
                   frame, history>>

\* lines 102-103, a PDF entry: the loop goes on
ValidateNext ==
    /\ pc = "validate"
    /\ idx <= Len(files)
    /\ files[idx].mime_type = PDF
    /\ idx' = idx + 1
    /\ UNCHANGED <<files, host_url, pc, events, exc, requested, image_blobs, i,
                   frame, history>>

\* lines 103-106, another MIME type: the rejection message is yielded
ValidateReject ==
    /\ pc = "validate"
    /\ idx <= Len(files)
    /\ files[idx].mime_type # PDF
    /\ events' = Append(events, JsonMessage("unsupported", idx, NoExc))
    /\ pc' = "raise_mime"
    /\ UNCHANGED <<files, host_url, idx, exc, requested, image_blobs, i,
                   frame, history>>

\* line 107, on the resumption after the rejection message
RaiseMime ==
    /\ pc = "raise_mime"
    /\ exc' = MimeError
    /\ pc' = "except"
    /\ UNCHANGED <<files, host_url, events, idx, requested, image_blobs, i,
                   frame, history>>

\* line 109
ValidationPassed ==
    /\ pc = "validate"
    /\ idx > Len(files)
    /\ events' = Append(events, TextMessage("validated", 0, 0))
    /\ idx' = 1
    /\ pc' = "file_loop"
    /\ UNCHANGED <<files, host_url, exc, requested, image_blobs, i, frame, history>>

\* lines 111-112
StartFile ==
    /\ pc = "file_loop"
    /\ idx <= Len(files)
    /\ events' = Append(events, TextMessage("processing", idx, 0))
    /\ pc' = "download"
    /\ UNCHANGED <<files, host_url, idx, exc, requested, image_blobs, i,
                   frame, history>>

\* requests.get + raise_for_status + response.content, lines 37-44:
\* a non-empty body, an empty body, or None after a RequestException
Responses == {"body", "empty", "None"}

\* Download where a failed download skips the file instead of raising
DownloadSkipsFile ==
    /\ pc = "download"
    /\ requested' = Append(requested, full_url(files[idx].url, host_url))
    /\ \E pdf_blob \in Responses :
          IF pdf_blob = "body"
          THEN pc' = "open" /\ idx' = idx
          ELSE pc' = "file_loop" /\ idx' = idx + 1
    /\ UNCHANGED <<files, host_url, events, exc, image_blobs, i, frame, history>>

\* lines 115-117: download_dify_file_content, then `if not pdf_blob: raise`
Download ==
    /\ pc = "download"
    /\ requested' = Append(requested, full_url(files[idx].url, host_url))
    /\ \E pdf_blob \in Responses :
          IF pdf_blob = "body"
          THEN pc' = "open" /\ exc' = exc
          ELSE pc' = "except" /\ exc' = DownloadError
    /\ UNCHANGED <<files, host_url, events, idx, image_blobs, i, frame, history>>

---------------------------------------------------------------------------
(* convert_pdf_to_image_blobs *)

\* what fitz.open(stream=pdf_bytes, filetype="pdf") can do: return a document,
\* raise the library's FitzError, or raise any other exception
OpenResults == {"document", "FitzError", "Exception"}

\* OpenFailure with an except clause that catches every exception
OpenFailureAlwaysMapped(outcome) == OpenError

\* lines 83-85: the only except clause of the outer try names FitzError, which
\* is re-raised as the "open or parse" ValueError; anything else propagates
OpenFailure(outcome) ==
    IF outcome = "FitzError" THEN OpenError ELSE LibraryError

\* lines 61-66, with lines 83-85 when the open fails
Open ==
    /\ pc = "open"
    /\ conv_blobs' = <<>>
    /\ page_number' = 0
    /\ \E outcome \in OpenResults, n \in 0..MaxPages :
          /\ open_result' = outcome
          /\ IF outcome = "document"
             THEN /\ pdf_document' = idx
                  /\ doc_len' = n
                  /\ open_handles' = open_handles \cup {idx}
                  /\ conv_exc' = NoExc
                  /\ pc' = "page_loop"
             ELSE /\ n = 0
                  /\ pdf_document' = 0
                  /\ doc_len' = 0
                  /\ open_handles' = open_handles
                  /\ conv_exc' = OpenFailure(outcome)
                  /\ pc' = "finally"
    /\ UNCHANGED <<files, host_url, events, idx, exc, requested, image_blobs, i,
                   rendered, calls>>

\* RenderPage where a failing page is logged and skipped, the loop going on
RenderPageSkipsFailure ==
    /\ pc = "page_loop"
    /\ page_number < doc_len
    /\ \E ok \in BOOLEAN :
          /\ rendered' = Append(rendered,
                [file |-> idx, page |-> page_number, ok |-> ok])
          /\ conv_blobs' = IF ok
                           THEN Append(conv_blobs, Rendering(idx, page_number))
                           ELSE conv_blobs
          /\ page_number' = page_number + 1
          /\ UNCHANGED <<conv_exc, pc>>
    /\ UNCHANGED <<files, host_url, events, idx, exc, requested, image_blobs, i,
                   pdf_document, doc_len, open_result, open_handles, calls>>

\* lines 69-81: one iteration of the page loop
RenderPage ==
    /\ pc = "page_loop"
    /\ page_number < doc_len
    /\ \E ok \in BOOLEAN :
          /\ rendered' = Append(rendered,
                [file |-> idx, page |-> page_number, ok |-> ok])
          /\ IF ok
             THEN /\ conv_blobs' = Append(conv_blobs, Rendering(idx, page_number))
                  /\ page_number' = page_number + 1
                  /\ UNCHANGED <<conv_exc, pc>>
             ELSE /\ conv_exc' = PageError(page_number)
                  /\ pc' = "finally"
                  /\ UNCHANGED <<conv_blobs, page_number>>
    /\ UNCHANGED <<files, host_url, events, idx, exc, requested, image_blobs, i,
                   pdf_document, doc_len, open_result, open_handles, calls>>

\* lines 86-92 and the assignment of line 121: the finally block, then either
\* the return of image_blobs or the propagation of the exception to _invoke
Finally ==
    /\ \/ pc = "finally"
       \/ pc = "page_loop" /\ page_number >= doc_len
    /\ open_handles' = IF Truthy(pdf_document, doc_len)
                       THEN open_handles \ {pdf_document}
                       ELSE open_handles
    /\ IF conv_exc = NoExc
       THEN /\ image_blobs' = conv_blobs
            /\ pc' = "converted"
            /\ exc' = exc
       ELSE /\ image_blobs' = image_blobs
            /\ pc' = "except"
            /\ exc' = conv_exc
    /\ calls' = Append(calls,
          [file |-> idx, opening |-> open_result, pages |-> doc_len,
           raised |-> conv_exc,
           returned |-> IF conv_exc = NoExc THEN Len(conv_blobs) ELSE 0])
    /\ UNCHANGED <<files, host_url, events, idx, requested, i, frame, rendered>>

---------------------------------------------------------------------------
(* Pdf2imageTool._invoke, continued *)

\* line 123
Converted ==
    /\ pc = "converted"
    /\ events' = Append(events, TextMessage("converted", idx, Len(image_blobs)))
    /\ i' = 0
    /\ pc' = "emit"
    /\ UNCHANGED <<files, host_url, idx, exc, requested, image_blobs, frame, history>>

\* lines 126-133: one iteration of the emission loop
EmitBlob ==
    /\ pc = "emit"
    /\ i < Len(image_blobs)
    /\ events' = Append(events, BlobMessage(image_blobs[i + 1], idx, i))
    /\ i' = i + 1
    /\ UNCHANGED <<files, host_url, pc, idx, exc, requested, image_blobs,
                   frame, history>>

\* NextFile that leaves the file loop after the first file
NextFileBreaks ==
    /\ pc = "emit"
    /\ i >= Len(image_blobs)
    /\ idx' = Len(files) + 1
    /\ pc' = "file_loop"
    /\ UNCHANGED <<files, host_url, events, exc, requested, image_blobs, i,
                   frame, history>>

\* line 111, the emission loop is exhausted: the next file
NextFile ==
    /\ pc = "emit"
    /\ i >= Len(image_blobs)
    /\ idx' = idx + 1
    /\ pc' = "file_loop"
    /\ UNCHANGED <<files, host_url, events, exc, requested, image_blobs, i,
                   frame, history>>

\* line 135
AllDone ==
    /\ pc = "file_loop"
    /\ idx > Len(files)
    /\ events' = Append(events, TextMessage("all_done", 0, 0))
    /\ pc' = "end"
    /\ UNCHANGED <<files, host_url, idx, exc, requested, image_blobs, i,
                   frame, history>>

\* Except without the return: the error is reported and the loop goes on
ExceptContinues ==
    /\ pc = "except"
    /\ events' = Append(events, JsonMessage("aborted", 0, exc))
    /\ idx' = idx + 1
    /\ pc' = "file_loop"
    /\ UNCHANGED <<files, host_url, exc, requested, image_blobs, i,
                   frame, history>>

\* lines 137-144
Except ==
    /\ pc = "except"
    /\ events' = Append(events, JsonMessage("aborted", 0, exc))
    /\ pc' = "end"
    /\ UNCHANGED <<files, host_url, idx, exc, requested, image_blobs, i,
                   frame, history>>

Next ==
    \/ Start
    \/ ValidateNext
    \/ ValidateReject
    \/ RaiseMime
    \/ ValidationPassed
    \/ StartFile
    \/ Download
    \/ Open
    \/ RenderPage
    \/ Finally
    \/ Converted
    \/ EmitBlob
    \/ NextFile
    \/ AllDone
    \/ Except

Spec == Init /\ [][Next]_vars

SpecUrl == InitUrl /\ [][Next]_vars

---------------------------------------------------------------------------
(* Reading the event stream and the histories *)

Last(s) == s[Len(s)]

JsonEvents == SelectSeq(events, LAMBDA e : e.kind = "json")

BlobEvents == SelectSeq(events, LAMBDA e : e.kind = "blob")

EventsNamed(msg) == SelectSeq(events, LAMBDA e : e.msg = msg)

\* the events that belong to the file at position f of the batch
EventsOf(f) == SelectSeq(events, LAMBDA e : e.file = f)

BlobsOf(f) == SelectSeq(events, LAMBDA e : e.kind = "blob" /\ e.file = f)

RenderedOf(f) == SelectSeq(rendered, LAMBDA r : r.file = f)

CallsOf(f) == SelectSeq(calls, LAMBDA c : c.file = f)

\* the run is over and it failed
Failed == pc = "end" /\ exc # NoExc

\* the failure came from the download or the conversion of file idx
ProcessingFailed ==
    /\ pc \in {"except", "end"}
    /\ exc.origin \in {"download", "open", "library", "page"}

HasBadMime == \E f \in 1..Len(files) : files[f].mime_type # PDF

\* the second loop of _invoke has been entered
Processing == EventsNamed("validated") # <<>>

\* file f went through download, conversion and emission
Completed(f) ==
    /\ Processing
    /\ \/ f < idx
       \/ f = idx /\ pc = "emit" /\ i >= Len(image_blobs)

---------------------------------------------------------------------------
(* C1 *)

\* C1, as stated: a run that failed, for whatever reason, holds exactly one
\* JSON result event, and that event is the last of the stream.
C1_ExactlyOneJsonResult ==
    Failed => /\ Len(JsonEvents) = 1
              /\ Last(events).kind = "json"

\* C1, amended: a run that failed ends with the error result event carrying
\* the cause, emitted once and followed by nothing; it is the only JSON event
\* after a download, open or page failure, and after a MIME rejection it is
\* the second one, right behind the "Unsupported file type" event.
C1_ErrorResultIsLast ==
    Failed => /\ Last(events) = JsonMessage("aborted", 0, exc)
              /\ Len(EventsNamed("aborted")) = 1
              /\ IF exc = MimeError
                 THEN /\ Len(JsonEvents) = 2
                      /\ events[Len(events) - 1].msg = "unsupported"
                 ELSE Len(JsonEvents) = 1

C1_Witness ==
    /\ Failed
    /\ exc = MimeError
    /\ Len(JsonEvents) = 2

---------------------------------------------------------------------------
(* C2 *)

\* C2: when some entry of the list is not a PDF, wherever it stands and
\* however many there are, no blob is ever emitted, nothing is downloaded or
\* converted, and exactly one "Unsupported file type" event is emitted.
C2_BadMimeRejectsBatch ==
    HasBadMime =>
        /\ BlobEvents = <<>>
        /\ requested = <<>>
        /\ calls = <<>>
        /\ rendered = <<>>
        /\ open_handles = {}
        /\ Len(EventsNamed("unsupported")) <= 1
        /\ pc \in {"raise_mime", "except", "end"}
              => Len(EventsNamed("unsupported")) = 1
        /\ pc \in {"start", "validate", "raise_mime", "except", "end"}

C2_Witness ==
    /\ pc = "end"
    /\ Len(files) = 3
    /\ files[1].mime_type = PDF
    /\ files[2].mime_type # PDF
    /\ files[3].mime_type # PDF
    /\ Len(EventsNamed("unsupported")) = 1

---------------------------------------------------------------------------
(* C3 *)

\* what C3 says of the files before and after the failing one: the earlier
\* files keep all their images, nothing is downloaded, converted or emitted
\* for the later ones
BatchFatal ==
    /\ \A f \in 1..(idx - 1) :
          /\ Len(CallsOf(f)) = 1
          /\ CallsOf(f)[1].raised = NoExc
          /\ Len(BlobsOf(f)) = CallsOf(f)[1].pages
    /\ \A j \in 1..Len(events) : events[j].file <= idx
    /\ Len(requested) = idx
    /\ \A j \in 1..Len(calls) : calls[j].file <= idx
    /\ \A j \in 1..Len(rendered) : rendered[j].file <= idx

\* C3, as stated: when the download or the conversion of file k fails, no
\* output event of any kind exists for file k.
C3_NoEventForFailedFile ==
    ProcessingFailed => /\ BatchFatal
                        /\ EventsOf(idx) = <<>>

\* C3, amended: when the download or the conversion of file k fails, the only
\* event of file k is its "processing" status text, emitted before the
\* download; the rest is as stated.
C3_BatchFatal ==
    ProcessingFailed => /\ BatchFatal
                        /\ EventsOf(idx) = <<TextMessage("processing", idx, 0)>>

C3_Witness ==
    /\ pc = "end"
    /\ exc = DownloadError
    /\ idx = 2
    /\ Len(files) = 3
    /\ Len(BlobsOf(1)) = 2

---------------------------------------------------------------------------
(* C4 *)

\* C4: the blobs emitted for a file are, in order, the renderings of pages
\* 1, 2, ... of its document, the i-th one named "{filename}_page{i}.png";
\* once the file is through there are exactly pageCount of them.
C4_BlobsFollowPages ==
    \A f \in 1..Len(files) :
        /\ \A j \in 1..Len(BlobsOf(f)) :
              /\ BlobsOf(f)[j].blob = Rendering(f, j - 1)
              /\ BlobsOf(f)[j].file_name = [stem |-> files[f].filename, page |-> j]
        /\ Completed(f) =>
              /\ Len(CallsOf(f)) = 1
              /\ Len(BlobsOf(f)) = CallsOf(f)[1].pages

C4_Witness ==
    /\ Len(files) >= 2
    /\ Completed(2)
    /\ Len(BlobsOf(1)) = 2
    /\ Len(BlobsOf(2)) = 2

---------------------------------------------------------------------------
(* C5 *)

\* C5: a conversion call hands its caller either one image per page or, when
\* it fails, none; and at the end of a run every file has either no blob
\* event or one per page of its document.
C5_AllOrNothing ==
    /\ \A j \in 1..Len(calls) :
          IF calls[j].raised = NoExc
          THEN calls[j].returned = calls[j].pages
          ELSE calls[j].returned = 0
    /\ pc = "end" =>
          \A f \in 1..Len(files) :
              \/ BlobsOf(f) = <<>>
              \/ /\ Len(CallsOf(f)) = 1
                 /\ Len(BlobsOf(f)) = CallsOf(f)[1].pages

C5_Witness ==
    /\ pc = "end"
    /\ \E j \in 1..Len(calls) :
          /\ calls[j].raised = PageError(1)
          /\ calls[j].returned = 0
          /\ BlobsOf(calls[j].file) = <<>>

---------------------------------------------------------------------------
(* C6 *)

\* C6: a document handle is open only inside the conversion call that opened
\* it; none is open when a download begins, after the call has returned or
\* raised, or when the run ends, whatever the page count.
C6_HandleClosedOnExit ==
    /\ open_handles # {} => pc \in {"page_loop", "finally"}
    /\ open_handles \subseteq {idx}

---------------------------------------------------------------------------
(* C7 *)

HasScheme(u) == startswith(u, HTTP) \/ startswith(u, HTTPS)

\* h without its trailing slashes: the longest prefix not ending in "/"
StripTrailing(h) ==
    LET n == CHOOSE n \in 0..Len(h) :
                /\ n = 0 \/ h[n] # SLASH
                /\ \A m \in (n + 1)..Len(h) : h[m] = SLASH
    IN  SubSeq(h, 1, n)

WithoutLeadingSlash(u) == IF u # <<>> /\ Head(u) = SLASH THEN Tail(u) ELSE u

\* the same reference URL with its leading slash removed, or added
Twin(u) == IF u # <<>> /\ Head(u) = SLASH THEN Tail(u) ELSE <<SLASH>> \o u

\* base, then exactly one "/", then something that is not a "/"
OneSlashAtJoin(url, base) ==
    /\ Len(url) > Len(base)
    /\ SubSeq(url, 1, Len(base)) = base
    /\ base # <<>> => Last(base) # SLASH
    /\ url[Len(base) + 1] = SLASH
    /\ Len(url) > Len(base) + 1 => url[Len(base) + 2] # SLASH

\* the URL of the request made for the only file of the batch is as C7 says
\* for every reference URL (all) or for the plain ones only
ResolvedAsStated(everyUrl) ==
    requested # <<>> =>
        LET u    == files[1].url
            base == StripTrailing(host_url)
            rest == WithoutLeadingSlash(u)
            plain == ~startswith(rest, <<SLASH>>) /\ ~HasScheme(rest)
        IN  IF HasScheme(u)
            THEN requested[1] = u
            ELSE /\ requested[1] = base \o <<SLASH>> \o rest
                 /\ everyUrl \/ plain =>
                       /\ requested[1] = full_url(Twin(u), host_url)
                       /\ OneSlashAtJoin(requested[1], base)

\* C7, as stated: an absolute URL is requested verbatim; any other is
\* requested as stripped base + "/" + URL without its leading slash, which is
\* also what the URL with the leading slash added or removed resolves to, and
\* which has no double slash at the join.
C7_EveryRelativeUrlJoinsWithOneSlash == ResolvedAsStated(TRUE)

\* C7, amended: the same, the equality with the twin URL and the absence of
\* a double slash being claimed only for a reference URL whose part after the
\* leading slash begins neither with "/" nor with http:// or https://.
C7_UrlResolution == ResolvedAsStated(FALSE)

C7_Witness ==
    /\ requested = << <<"h", SLASH, "a">> >>
    /\ files[1].url = <<SLASH, "a">>
    /\ host_url = <<"h", SLASH, SLASH>>

---------------------------------------------------------------------------
(* C8 *)

\* C8: the "all done" text is emitted exactly when every file was validated,
\* downloaded, converted and fully emitted; it is then the last event, it is
\* the only one of its kind, and no JSON result shares the stream with it.
C8_AllDoneIffAllProcessed ==
    /\ Len(EventsNamed("all_done")) <= 1
    /\ EventsNamed("all_done") # <<>> =>
          /\ pc = "end"
          /\ Last(events) = TextMessage("all_done", 0, 0)
          /\ JsonEvents = <<>>
    /\ pc = "end" =>
          (EventsNamed("all_done") # <<>>
             <=> /\ Len(requested) = Len(files)
                 /\ \A f \in 1..Len(files) :
                       /\ files[f].mime_type = PDF
                       /\ Len(CallsOf(f)) = 1
                       /\ CallsOf(f)[1].raised = NoExc
                       /\ Len(BlobsOf(f)) = CallsOf(f)[1].pages)

C8_Witness ==
    /\ pc = "end"
    /\ Len(files) = 2
    /\ Last(events).msg = "all_done"
    /\ events[Len(events) - 1].kind = "blob"
    /\ events[Len(events) - 1].file = 2

---------------------------------------------------------------------------
(* C9 *)

\* C9: within a conversion the pages are loaded in index order 0, 1, 2, ...;
\* a page that fails is the last one loaded, and the exception then raised is
\* the page error naming that page, counted from 1.
C9_FailFastInOrder ==
    /\ \A f \in 1..Len(files) :
          \A j \in 1..Len(RenderedOf(f)) :
              /\ RenderedOf(f)[j].page = j - 1
              /\ ~RenderedOf(f)[j].ok => j = Len(RenderedOf(f))
    /\ \A j \in 1..Len(calls) :
          LET r == RenderedOf(calls[j].file)
          IN  IF r # <<>> /\ ~Last(r).ok
              THEN calls[j].raised =
                      [type |-> "ValueError", origin |-> "page", page |-> Len(r)]
              ELSE calls[j].raised.origin # "page"

C9_Witness ==
    /\ pc = "end"
    /\ \E j \in 1..Len(calls) :
          /\ calls[j].pages = 2
          /\ calls[j].raised.origin = "page"
          /\ calls[j].raised.page = 2
          /\ Len(RenderedOf(calls[j].file)) = 2

---------------------------------------------------------------------------
(* C10 *)

=============================================================================
